---- MODULE Spec2Model ----
(***************************************************************************)
(* State-machine model of src/src/App.jsx: the useTodos store (addTodo,    *)
(* toggleTodo, deleteTodo) and the AddTodoForm view (handleInputChange,    *)
(* handleSubmit).  Strings are sequences of one-character strings so that  *)
(* String.prototype.trim is computed, not assumed.                         *)
(***************************************************************************)
EXTENDS Integers, Sequences, FiniteSets, TLC

VARIABLES todos, inputValue, error, now, last

vars == <<todos, inputValue, error, now, last>>

(* ---------------------------------------------------------------- bounds *)
\* First value the wall clock (Date.now()) can show; above the seed ids.
ClockStart == 5
\* Number of milliseconds the clock can advance during a run.
ClockTicks == 1
\* Largest number of non-seed tasks held in the list at once.
MaxAdded == 2

MaxNow == ClockStart + ClockTicks

(* ------------------------------------------------------------- constants *)
MinLength == 5

ErrorMsg == "Task must be minimum 5 characters"

WhiteSpace == {" "}

(* ----------------------------------------------------------------- trim *)
RECURSIVE trimStart(_)
trimStart(s) ==
    IF s # <<>> /\ Head(s) \in WhiteSpace THEN trimStart(Tail(s)) ELSE s

RECURSIVE trimEnd(_)
trimEnd(s) ==
    IF s # <<>> /\ s[Len(s)] \in WhiteSpace
    THEN trimEnd(SubSeq(s, 1, Len(s) - 1))
    ELSE s

trim(s) == trimEnd(trimStart(s))

(* --------------------------------------------------------------- strings *)
SeedText1 ==
    <<"M","a","k","e"," ","a"," ","l","o","g","o"," ","b","i","g","g","e","r">>
SeedText2 ==
    <<"L","a","u","n","c","h"," ","t","h","e"," ","B","e","t","a"," ",
      "v","e","r","s","i","o","n">>
SeedText3 == <<"F","i","x"," ","t","h","e"," ","c","a","r">>
SeedText4 == <<"M","a","k","e"," ","a"," ","d","i","n","n","e","r">>

\* The shortest text that passes validation.
Abcde == <<"a","b","c","d","e">>

\* Values the text input can hold after a change event (e.target.value).
InputValues ==
    { <<"a","b","c","d">>,              \* raw 4, trimmed 4
      <<" ","a","b","c","d">>,          \* raw 5, trimmed 4
      <<" ">> \o Abcde \o <<" ">> }     \* raw 7, trimmed 5

(* ------------------------------------------------------------ the store *)
SeedTodos ==
    << [id |-> 1, text |-> SeedText1, completed |-> FALSE],
       [id |-> 2, text |-> SeedText2, completed |-> TRUE],
       [id |-> 3, text |-> SeedText3, completed |-> FALSE],
       [id |-> 4, text |-> SeedText4, completed |-> FALSE] >>

SeedIds == {SeedTodos[k].id : k \in 1..Len(SeedTodos)}

\* Ids a caller may pass to toggleTodo / deleteTodo.
IdUniverse == SeedIds \cup (ClockStart..MaxNow)

IdsOf(list) == {list[k].id : k \in 1..Len(list)}

Present(list, id) == id \in IdsOf(list)

\* addTodo with the new task spread before the previous ones.
addTodoPrepend(prevTodos, text, dateNow) ==
    <<[id |-> dateNow, text |-> text, completed |-> FALSE]>> \o prevTodos

addTodo(prevTodos, text, dateNow) ==
    Append(prevTodos, [id |-> dateNow, text |-> text, completed |-> FALSE])

\* toggleTodo that sets the flag instead of negating it.
toggleTodoSetTrue(prevTodos, id) ==
    [k \in 1..Len(prevTodos) |->
        IF prevTodos[k].id = id
        THEN [prevTodos[k] EXCEPT !.completed = TRUE]
        ELSE prevTodos[k]]

toggleTodo(prevTodos, id) ==
    [k \in 1..Len(prevTodos) |->
        IF prevTodos[k].id = id
        THEN [prevTodos[k] EXCEPT !.completed = ~prevTodos[k].completed]
        ELSE prevTodos[k]]

\* deleteTodo with the filter test inverted.
deleteTodoInverted(prevTodos, id) ==
    SelectSeq(prevTodos, LAMBDA todo : todo.id = id)

deleteTodo(prevTodos, id) ==
    SelectSeq(prevTodos, LAMBDA todo : todo.id # id)

(* ------------------------------------------------------------- the form *)
\* handleInputChange with the error test negated.
ClearsErrorNegated(err, value) == err = "" /\ Len(value) >= MinLength

\* handleInputChange's condition for setError('').
ClearsError(err, value) == err # "" /\ Len(value) >= MinLength

\* handleSubmit validating the untrimmed input.
IsValidUntrimmed(value) == ~(Len(value) < MinLength)

\* handleSubmit's validation.
IsValid(value) == ~(Len(trim(value)) < MinLength)

\* handleSubmit handing the untrimmed input to addTodo.
SubmittedTextRaw(value) == value

\* The text handleSubmit hands to addTodo.
SubmittedText(value) == trim(value)

NumAdded(list) == Cardinality({k \in 1..Len(list) : list[k].id \notin SeedIds})

(* ---------------------------------------------------------------- state *)
Init ==
    /\ todos = SeedTodos
    /\ inputValue = <<>>
    /\ error = ""
    /\ now = ClockStart
    /\ last = "init"

HandleInputChange(value) ==
    /\ inputValue' = value
    /\ error' = IF ClearsError(error, value) THEN "" ELSE error
    /\ last' = "change"
    /\ UNCHANGED <<todos, now>>

HandleSubmit ==
    IF ~IsValid(inputValue)
    THEN /\ error' = ErrorMsg
         /\ last' = "reject"
         /\ UNCHANGED <<todos, inputValue, now>>
    ELSE /\ NumAdded(todos) < MaxAdded
         /\ \E dateNow \in now..MaxNow :
               /\ todos' = addTodo(todos, SubmittedText(inputValue), dateNow)
               /\ now' = dateNow
         /\ inputValue' = <<>>
         /\ last' = "add"
         /\ UNCHANGED error

ToggleTodo(id) ==
    /\ todos' = toggleTodo(todos, id)
    /\ last' = IF Present(todos, id) THEN "toggle" ELSE "toggleMiss"
    /\ UNCHANGED <<inputValue, error, now>>

DeleteTodo(id) ==
    /\ todos' = deleteTodo(todos, id)
    /\ last' = IF Present(todos, id) THEN "delete" ELSE "deleteMiss"
    /\ UNCHANGED <<inputValue, error, now>>

Next ==
    \/ \E value \in InputValues : HandleInputChange(value)
    \/ HandleSubmit
    \/ \E id \in IdUniverse : ToggleTodo(id)
    \/ \E id \in IdUniverse : DeleteTodo(id)

Spec == Init /\ [][Next]_vars

TypeOK ==
    /\ error \in {"", ErrorMsg}
    /\ now \in ClockStart..MaxNow
    /\ Len(todos) <= Len(SeedTodos) + MaxAdded

(* ------------------------------------------------------------- helpers *)
Pairs(list) == [k \in 1..Len(list) |-> <<list[k].id, list[k].text>>]

RECURSIVE IsSubseq(_, _)
IsSubseq(a, b) ==
    IF a = <<>> THEN TRUE
    ELSE IF b = <<>> THEN FALSE
    ELSE IF Head(a) = Head(b) THEN IsSubseq(Tail(a), Tail(b))
    ELSE IsSubseq(a, Tail(b))

Changed(old, new) == {k \in 1..Len(old) : new[k] # old[k]}

(* ------------------------------------------------------------------ C1 *)
\* C1: in every reachable state all tasks of the list have pairwise
\* distinct ids, although addTodo takes the id from the wall clock.
UniqueIds ==
    \A a, b \in 1..Len(todos) : a # b => todos[a].id # todos[b].id

(* ------------------------------------------------------------------ C2 *)
\* C2: toggleTodo(i) for a present id i flips the completed flag of exactly
\* one task, the one with id i, and leaves every other task, the length and
\* the order of the list unchanged.
ToggleFlipsExactlyOne ==
    [][\A i \in IdsOf(todos) :
          (last' = "toggle" /\ ToggleTodo(i)) =>
             /\ Len(todos') = Len(todos)
             /\ Cardinality(Changed(todos, todos')) = 1
             /\ \A k \in 1..Len(todos) :
                   /\ todos'[k].id = todos[k].id
                   /\ todos'[k].text = todos[k].text
                   /\ (todos[k].id = i =>
                          todos'[k].completed = ~todos[k].completed)
                   /\ (todos[k].id # i => todos'[k] = todos[k])]_vars

(* ------------------------------------------------------------------ C3 *)
\* C3: deleteTodo(i) for a present id i removes exactly one element, the
\* task with id i; the length drops by exactly 1 and the remaining tasks
\* are unchanged and keep their relative order.
DeleteRemovesExactlyOne ==
    [][\A i \in IdsOf(todos) :
          (last' = "delete" /\ DeleteTodo(i)) =>
             /\ Len(todos') = Len(todos) - 1
             /\ ~Present(todos', i)
             /\ IsSubseq(todos', todos)]_vars

(* ------------------------------------------------------------------ C4 *)
\* C4: submitting an input whose trimmed length is at least 5 appends
\* exactly one task with text trim(input) and completed = false, keeps the
\* earlier tasks as they were and in the same order, and clears the input.
SubmitValidAppendsOne ==
    [][(Len(trim(inputValue)) >= MinLength /\ HandleSubmit) =>
          /\ Len(todos') = Len(todos) + 1
          /\ todos'[Len(todos')].text = trim(inputValue)
          /\ todos'[Len(todos')].completed = FALSE
          /\ SubSeq(todos', 1, Len(todos)) = todos
          /\ inputValue' = <<>>]_vars

SubmitValidWitness ==
    /\ last = "add"
    /\ Len(todos) = Len(SeedTodos) + 1
    /\ SubSeq(todos, 1, Len(SeedTodos)) = SeedTodos
    /\ todos[Len(todos)].text = Abcde
    /\ todos[Len(todos)].completed = FALSE
    /\ inputValue = <<>>

(* ------------------------------------------------------------------ C5 *)
\* C5: submitting an input whose trimmed length is below 5 never adds: the
\* list is unchanged, the error becomes the fixed validation string and the
\* input text stays as typed.
SubmitShortRejected ==
    [][(Len(trim(inputValue)) < MinLength /\ HandleSubmit) =>
          /\ todos' = todos
          /\ error' = "Task must be minimum 5 characters"
          /\ inputValue' = inputValue]_vars

SubmitShortWitness ==
    /\ last = "reject"
    /\ error = ErrorMsg
    /\ inputValue = <<" ","a","b","c","d">>
    /\ todos = SeedTodos

(* ------------------------------------------------------------------ C6 *)
\* C6: toggleTodo and deleteTodo on an id no task has are silent no-ops:
\* the list is the same, element by element, and no error is set.
AbsentIdNoOp ==
    [][\A i \in IdUniverse \ IdsOf(todos) :
          /\ (last' = "toggleMiss" /\ ToggleTodo(i)) =>
                 todos' = todos /\ error' = error
          /\ (last' = "deleteMiss" /\ DeleteTodo(i)) =>
                 todos' = todos /\ error' = error]_vars

AbsentIdWitness ==
    /\ last \in {"toggleMiss", "deleteMiss"}
    /\ todos # <<>>
    /\ \E k \in 1..Len(todos) : todos[k].completed
    /\ SeedIds \ IdsOf(todos) # {}

(* ------------------------------------------------------------------ C7 *)
\* C7: every task's text has no leading or trailing whitespace and at least
\* 5 characters, and no step changes the text of a task that stays in the
\* list.
TextsWellFormed ==
    \A k \in 1..Len(todos) :
        /\ Len(todos[k].text) >= MinLength
        /\ todos[k].text[1] \notin WhiteSpace
        /\ todos[k].text[Len(todos[k].text)] \notin WhiteSpace

TextsStable ==
    \/ IsSubseq(Pairs(todos'), Pairs(todos))
    \/ /\ Len(todos') = Len(todos) + 1
       /\ SubSeq(Pairs(todos'), 1, Len(todos)) = Pairs(todos)

TaskTextsTrimmedAndImmutable ==
    []TextsWellFormed /\ [][TextsStable]_vars

TaskTextsWitness ==
    /\ Len(todos) <= Len(SeedTodos)
    /\ \E k \in 1..Len(todos) :
          /\ todos[k].id \notin SeedIds
          /\ todos[k].text = Abcde
          /\ todos[k].completed
    /\ \E k \in 1..Len(todos) : todos[k].id \in SeedIds

(* ------------------------------------------------------------------ C8 *)
\* C8: after toggleTodo(i) on a present id i, a second toggleTodo(i) gives
\* back the list as it was before the first call.
ToggleTwiceRestores ==
    [][\A i \in IdsOf(todos) :
          (last' = "toggle" /\ ToggleTodo(i)) =>
             /\ toggleTodo(todos', i) = todos
             /\ \A k \in 1..Len(todos) :
                   todos[k].id = i =>
                      toggleTodo(todos', i)[k].completed = todos[k].completed]_vars

ToggleTwiceWitness ==
    /\ last = "toggle"
    /\ \E k \in 1..Len(todos) : todos[k].id = 1 /\ todos[k].completed
    /\ \E k \in 1..Len(todos) : todos[k].id = 2 /\ ~todos[k].completed

(* ------------------------------------------------------------------ C9 *)
\* C9: a keystroke while the error is displayed updates the input and
\* clears the error exactly when the new text's trimmed length is >= 5.
KeystrokeClearsIffTrimmedValid ==
    [][\A value \in InputValues :
          (error # "" /\ HandleInputChange(value)) =>
             /\ inputValue' = value
             /\ (error' = "" <=> Len(trim(value)) >= MinLength)]_vars

(* ----------------------------------------------------------------- C10 *)
\* C10: whenever the error is displayed the input trims to fewer than 5
\* characters; so a submit that adds happens with no error displayed and
\* leaves the form with empty input and empty error.
ErrorImpliesShort == error # "" => Len(trim(inputValue)) < MinLength

ErrorOnlyWithShortInput ==
    /\ []ErrorImpliesShort
    /\ [][(Len(trim(inputValue)) >= MinLength /\ HandleSubmit) =>
             error = "" /\ inputValue' = <<>> /\ error' = ""]_vars

ErrorShownWitness ==
    /\ last = "change"
    /\ error # ""
    /\ inputValue = <<"a","b","c","d">>
====
